---------------------------- MODULE Spec2Model ----------------------------
(***************************************************************************)
(* The HTML rewriting pass of rewriter/html/src/visitor.rs                  *)
(* (Visitor::rewrite): one forward pass over the parsed tree that appends   *)
(* edits to an edit list and talks to the external tool gateway and to the  *)
(* rule callbacks.                                                          *)
(*                                                                         *)
(* Text is a sequence of bytes, each byte a one-character string; that     *)
(* keeps ASCII lower-casing, concatenation, byte lengths and UTF-8         *)
(* validity computable.  Option<T> is a sequence of length 0 (None) or 1   *)
(* (Some).                                                                 *)
(***************************************************************************)
EXTENDS Naturals, Sequences, FiniteSets

VARIABLES data, tree, rules, from_top, changes, head, pc, ni, ai, log, result

vars == <<data, tree, rules, from_top, changes, head, pc, ni, ai, log, result>>

---------------------------------------------------------------------------
(* Option *)

None == <<>>

Some(x) == <<x>>

---------------------------------------------------------------------------
(* String literals of visitor.rs *)

EVENT_ATTRIBUTES ==
    { <<"o", "n", "b", "e", "f", "o", "r", "e", "x", "r", "s", "e", "l", "e", "c", "t">>,
      <<"o", "n", "a", "b", "o", "r", "t">>,
      <<"o", "n", "b", "e", "f", "o", "r", "e", "i", "n", "p", "u", "t">>,
      <<"o", "n", "b", "e", "f", "o", "r", "e", "m", "a", "t", "c", "h">>,
      <<"o", "n", "b", "e", "f", "o", "r", "e", "t", "o", "g", "g", "l", "e">>,
      <<"o", "n", "b", "l", "u", "r">>,
      <<"o", "n", "c", "a", "n", "c", "e", "l">>,
      <<"o", "n", "c", "a", "n", "p", "l", "a", "y">>,
      <<"o", "n", "c", "a", "n", "p", "l", "a", "y", "t", "h", "r", "o", "u", "g", "h">>,
      <<"o", "n", "c", "h", "a", "n", "g", "e">>,
      <<"o", "n", "c", "l", "i", "c", "k">>,
      <<"o", "n", "c", "l", "o", "s", "e">>,
      <<"o", "n", "c", "o", "n", "t", "e", "n", "t", "v", "i", "s", "i", "b", "i", "l", "i", "t", "y", "a", "u", "t", "o", "s", "t", "a", "t", "e", "c", "h", "a", "n", "g", "e">>,
      <<"o", "n", "c", "o", "n", "t", "e", "x", "t", "l", "o", "s", "t">>,
      <<"o", "n", "c", "o", "n", "t", "e", "x", "t", "m", "e", "n", "u">>,
      <<"o", "n", "c", "o", "n", "t", "e", "x", "t", "r", "e", "s", "t", "o", "r", "e", "d">>,
      <<"o", "n", "c", "u", "e", "c", "h", "a", "n", "g", "e">>,
      <<"o", "n", "d", "b", "l", "c", "l", "i", "c", "k">>,
      <<"o", "n", "d", "r", "a", "g">>,
      <<"o", "n", "d", "r", "a", "g", "e", "n", "d">>,
      <<"o", "n", "d", "r", "a", "g", "e", "n", "t", "e", "r">>,
      <<"o", "n", "d", "r", "a", "g", "l", "e", "a", "v", "e">>,
      <<"o", "n", "d", "r", "a", "g", "o", "v", "e", "r">>,
      <<"o", "n", "d", "r", "a", "g", "s", "t", "a", "r", "t">>,
      <<"o", "n", "d", "r", "o", "p">>,
      <<"o", "n", "d", "u", "r", "a", "t", "i", "o", "n", "c", "h", "a", "n", "g", "e">>,
      <<"o", "n", "e", "m", "p", "t", "i", "e", "d">>,
      <<"o", "n", "e", "n", "d", "e", "d">>,
      <<"o", "n", "e", "r", "r", "o", "r">>,
      <<"o", "n", "f", "o", "c", "u", "s">>,
      <<"o", "n", "f", "o", "r", "m", "d", "a", "t", "a">>,
      <<"o", "n", "i", "n", "p", "u", "t">>,
      <<"o", "n", "i", "n", "v", "a", "l", "i", "d">>,
      <<"o", "n", "k", "e", "y", "d", "o", "w", "n">>,
      <<"o", "n", "k", "e", "y", "p", "r", "e", "s", "s">>,
      <<"o", "n", "k", "e", "y", "u", "p">>,
      <<"o", "n", "l", "o", "a", "d">>,
      <<"o", "n", "l", "o", "a", "d", "e", "d", "d", "a", "t", "a">>,
      <<"o", "n", "l", "o", "a", "d", "e", "d", "m", "e", "t", "a", "d", "a", "t", "a">>,
      <<"o", "n", "l", "o", "a", "d", "s", "t", "a", "r", "t">>,
      <<"o", "n", "m", "o", "u", "s", "e", "d", "o", "w", "n">>,
      <<"o", "n", "m", "o", "u", "s", "e", "e", "n", "t", "e", "r">>,
      <<"o", "n", "m", "o", "u", "s", "e", "l", "e", "a", "v", "e">>,
      <<"o", "n", "m", "o", "u", "s", "e", "m", "o", "v", "e">>,
      <<"o", "n", "m", "o", "u", "s", "e", "o", "u", "t">>,
      <<"o", "n", "m", "o", "u", "s", "e", "o", "v", "e", "r">>,
      <<"o", "n", "m", "o", "u", "s", "e", "u", "p">>,
      <<"o", "n", "m", "o", "u", "s", "e", "w", "h", "e", "e", "l">>,
      <<"o", "n", "p", "a", "u", "s", "e">>,
      <<"o", "n", "p", "l", "a", "y">>,
      <<"o", "n", "p", "l", "a", "y", "i", "n", "g">>,
      <<"o", "n", "p", "r", "o", "g", "r", "e", "s", "s">>,
      <<"o", "n", "r", "a", "t", "e", "c", "h", "a", "n", "g", "e">>,
      <<"o", "n", "r", "e", "s", "e", "t">>,
      <<"o", "n", "r", "e", "s", "i", "z", "e">>,
      <<"o", "n", "s", "c", "r", "o", "l", "l">>,
      <<"o", "n", "s", "e", "c", "u", "r", "i", "t", "y", "p", "o", "l", "i", "c", "y", "v", "i", "o", "l", "a", "t", "i", "o", "n">>,
      <<"o", "n", "s", "e", "e", "k", "e", "d">>,
      <<"o", "n", "s", "e", "e", "k", "i", "n", "g">>,
      <<"o", "n", "s", "e", "l", "e", "c", "t">>,
      <<"o", "n", "s", "l", "o", "t", "c", "h", "a", "n", "g", "e">>,
      <<"o", "n", "s", "t", "a", "l", "l", "e", "d">>,
      <<"o", "n", "s", "u", "b", "m", "i", "t">>,
      <<"o", "n", "s", "u", "s", "p", "e", "n", "d">>,
      <<"o", "n", "t", "i", "m", "e", "u", "p", "d", "a", "t", "e">>,
      <<"o", "n", "t", "o", "g", "g", "l", "e">>,
      <<"o", "n", "v", "o", "l", "u", "m", "e", "c", "h", "a", "n", "g", "e">>,
      <<"o", "n", "w", "a", "i", "t", "i", "n", "g">>,
      <<"o", "n", "w", "e", "b", "k", "i", "t", "a", "n", "i", "m", "a", "t", "i", "o", "n", "e", "n", "d">>,
      <<"o", "n", "w", "e", "b", "k", "i", "t", "a", "n", "i", "m", "a", "t", "i", "o", "n", "i", "t", "e", "r", "a", "t", "i", "o", "n">>,
      <<"o", "n", "w", "e", "b", "k", "i", "t", "a", "n", "i", "m", "a", "t", "i", "o", "n", "s", "t", "a", "r", "t">>,
      <<"o", "n", "w", "e", "b", "k", "i", "t", "t", "r", "a", "n", "s", "i", "t", "i", "o", "n", "e", "n", "d">>,
      <<"o", "n", "w", "h", "e", "e", "l">>,
      <<"o", "n", "a", "u", "x", "c", "l", "i", "c", "k">>,
      <<"o", "n", "g", "o", "t", "p", "o", "i", "n", "t", "e", "r", "c", "a", "p", "t", "u", "r", "e">>,
      <<"o", "n", "l", "o", "s", "t", "p", "o", "i", "n", "t", "e", "r", "c", "a", "p", "t", "u", "r", "e">>,
      <<"o", "n", "p", "o", "i", "n", "t", "e", "r", "d", "o", "w", "n">>,
      <<"o", "n", "p", "o", "i", "n", "t", "e", "r", "m", "o", "v", "e">>,
      <<"o", "n", "p", "o", "i", "n", "t", "e", "r", "r", "a", "w", "u", "p", "d", "a", "t", "e">>,
      <<"o", "n", "p", "o", "i", "n", "t", "e", "r", "u", "p">>,
      <<"o", "n", "p", "o", "i", "n", "t", "e", "r", "c", "a", "n", "c", "e", "l">>,
      <<"o", "n", "p", "o", "i", "n", "t", "e", "r", "o", "v", "e", "r">>,
      <<"o", "n", "p", "o", "i", "n", "t", "e", "r", "o", "u", "t">>,
      <<"o", "n", "p", "o", "i", "n", "t", "e", "r", "e", "n", "t", "e", "r">>,
      <<"o", "n", "p", "o", "i", "n", "t", "e", "r", "l", "e", "a", "v", "e">>,
      <<"o", "n", "s", "e", "l", "e", "c", "t", "s", "t", "a", "r", "t">>,
      <<"o", "n", "s", "e", "l", "e", "c", "t", "i", "o", "n", "c", "h", "a", "n", "g", "e">>,
      <<"o", "n", "a", "n", "i", "m", "a", "t", "i", "o", "n", "e", "n", "d">>,
      <<"o", "n", "a", "n", "i", "m", "a", "t", "i", "o", "n", "i", "t", "e", "r", "a", "t", "i", "o", "n">>,
      <<"o", "n", "a", "n", "i", "m", "a", "t", "i", "o", "n", "s", "t", "a", "r", "t">>,
      <<"o", "n", "t", "r", "a", "n", "s", "i", "t", "i", "o", "n", "r", "u", "n">>,
      <<"o", "n", "t", "r", "a", "n", "s", "i", "t", "i", "o", "n", "s", "t", "a", "r", "t">>,
      <<"o", "n", "t", "r", "a", "n", "s", "i", "t", "i", "o", "n", "e", "n", "d">>,
      <<"o", "n", "t", "r", "a", "n", "s", "i", "t", "i", "o", "n", "c", "a", "n", "c", "e", "l">>,
      <<"o", "n", "c", "o", "p", "y">>,
      <<"o", "n", "c", "u", "t">>,
      <<"o", "n", "p", "a", "s", "t", "e">>,
      <<"o", "n", "s", "c", "r", "o", "l", "l", "e", "n", "d">>,
      <<"o", "n", "s", "c", "r", "o", "l", "l", "s", "n", "a", "p", "c", "h", "a", "n", "g", "e">>,
      <<"o", "n", "s", "c", "r", "o", "l", "l", "s", "n", "a", "p", "c", "h", "a", "n", "g", "i", "n", "g">> }

s_head == <<"h", "e", "a", "d">>

s_base == <<"b", "a", "s", "e">>

s_href == <<"h", "r", "e", "f">>

s_script == <<"s", "c", "r", "i", "p", "t">>

s_src == <<"s", "r", "c">>

s_type == <<"t", "y", "p", "e">>

s_module == <<"m", "o", "d", "u", "l", "e">>

s_type_module == <<"?", "t", "y", "p", "e", "=", "m", "o", "d", "u", "l", "e">>

s_style == <<"s", "t", "y", "l", "e">>

s_meta == <<"m", "e", "t", "a">>

s_http_equiv == <<"h", "t", "t", "p", "-", "e", "q", "u", "i", "v">>

s_csp == <<"c", "o", "n", "t", "e", "n", "t", "-", "s", "e", "c", "u", "r", "i", "t", "y", "-", "p", "o", "l", "i", "c", "y">>

s_refresh == <<"r", "e", "f", "r", "e", "s", "h">>

s_content == <<"c", "o", "n", "t", "e", "n", "t">>

s_script_source_src == <<"s", "c", "r", "i", "p", "t", "-", "s", "o", "u", "r", "c", "e", "-", "s", "r", "c">>

s_star == <<"*">>

s_application_javascript == <<"a", "p", "p", "l", "i", "c", "a", "t", "i", "o", "n", "/", "j", "a", "v", "a", "s", "c", "r", "i", "p", "t">>

s_text_javascript == <<"t", "e", "x", "t", "/", "j", "a", "v", "a", "s", "c", "r", "i", "p", "t">>

s_importmap == <<"i", "m", "p", "o", "r", "t", "m", "a", "p">>

---------------------------------------------------------------------------
(* Text primitives of the standard library, by what they do *)

UPPER == <<"A", "B", "C", "D", "E", "F", "G", "H", "I", "J", "K", "L", "M", "N", "O", "P", "Q", "R", "S", "T", "U", "V", "W", "X", "Y", "Z">>

LOWER == <<"a", "b", "c", "d", "e", "f", "g", "h", "i", "j", "k", "l", "m", "n", "o", "p", "q", "r", "s", "t", "u", "v", "w", "x", "y", "z">>

\* u8::to_ascii_lowercase: 'A'..'Z' map to 'a'..'z', every other byte is kept
to_ascii_lowercase(c) ==
    IF \E i \in 1..Len(UPPER) : UPPER[i] = c
    THEN LOWER[CHOOSE i \in 1..Len(UPPER) : UPPER[i] = c]
    ELSE c

\* str::make_ascii_lowercase (line 326), byte by byte
make_ascii_lowercase(s) == [i \in 1..Len(s) |-> to_ascii_lowercase(s[i])]

\* The byte 0xFF, which occurs in no UTF-8 text
InvalidByte == "0xFF"

\* Bytes::try_as_utf8_str on a slice: None when the bytes are not valid text.
\* The documents of this model hold ASCII bytes and InvalidByte only.
try_as_utf8_str(raw) ==
    IF \E i \in 1..Len(raw.b) : raw.b[i] = InvalidByte THEN None ELSE Some(raw.b)

\* Allocator::alloc_concat_strs_array (line 246)
alloc_concat_strs_array(strs) == strs[1] \o strs[2]

RECURSIVE Concat(_)
Concat(ss) == IF ss = <<>> THEN <<>> ELSE Head(ss) \o Concat(Tail(ss))

RECURSIVE SumLen(_)
SumLen(ss) == IF ss = <<>> THEN 0 ELSE Len(Head(ss)) + SumLen(Tail(ss))

---------------------------------------------------------------------------
(* The document and its parsed tree (tl::VDom), as the pass reads them.    *)
(* A document is a sequence of elements; an element has a name, attributes *)
(* in order (value None: a boolean attribute) and children that are raw    *)
(* text or childless elements.  Its markup is                              *)
(*     <name k="v" k>children</name>                                       *)
(* with no closing tag for a void element.                                 *)

At(k, v) == [k |-> k, v |-> v]

RawKid(text) == [kind |-> "raw", text |-> text, name |-> <<>>, attrs |-> <<>>]

TagKid(name, attrs) == [kind |-> "tag", text |-> <<>>, name |-> name, attrs |-> attrs]

El(name, attrs, kids) == [name |-> name, attrs |-> attrs, kids |-> kids]

VOID_NAMES == {s_meta, s_base}

AttrMarkup(a) ==
    <<" ">> \o a.k \o (IF a.v = None THEN <<>> ELSE <<"=", "\"">> \o a.v[1] \o <<"\"">>)

OpenMarkup(name, attrs) ==
    <<"<">> \o name \o Concat([i \in 1..Len(attrs) |-> AttrMarkup(attrs[i])]) \o <<">">>

CloseMarkup(name) == IF name \in VOID_NAMES THEN <<>> ELSE <<"<", "/">> \o name \o <<">">>

KidMarkup(c) ==
    IF c.kind = "raw" THEN c.text ELSE OpenMarkup(c.name, c.attrs) \o CloseMarkup(c.name)

InnerMarkup(e) == Concat([i \in 1..Len(e.kids) |-> KidMarkup(e.kids[i])])

ElMarkup(e) == OpenMarkup(e.name, e.attrs) \o InnerMarkup(e) \o CloseMarkup(e.name)

\* The original text buffer of a document
Serialize(doc) == Concat([i \in 1..Len(doc) |-> ElMarkup(doc[i])])

\* A Bytes slice of the buffer: where it starts (its pointer, as an offset
\* from the buffer's start) and its bytes
Slice(at, b) == [at |-> at, b |-> b]

\* The attributes of a tag whose markup starts at offset at: key and value
\* slices into the buffer
ParseAttrs(name, attrs, at) ==
    [i \in 1..Len(attrs) |->
        LET off == at + 1 + Len(name)
                      + SumLen([j \in 1..(i - 1) |-> AttrMarkup(attrs[j])]) + 1
        IN  [k |-> Slice(off, attrs[i].k),
             v |-> IF attrs[i].v = None THEN None
                   ELSE Some(Slice(off + Len(attrs[i].k) + 2, attrs[i].v[1]))]]

\* Node::Tag.  start and end are what HTMLTag::boundaries reports: the
\* offsets of the first and of the last byte of the element.
TagNode(name, attrs, at, inner, children) ==
    [kind |-> "tag",
     name |-> Slice(at + 1, name),
     attrs |-> ParseAttrs(name, attrs, at),
     start |-> at,
     end |-> at + Len(OpenMarkup(name, attrs)) + Len(inner) + Len(CloseMarkup(name)) - 1,
     inner |-> Slice(at + Len(OpenMarkup(name, attrs)), inner),
     children |-> children,
     raw |-> Slice(at, <<>>)]

\* Node::Raw
RawNode(text, at) ==
    [kind |-> "raw", name |-> Slice(at, <<>>), attrs |-> <<>>, start |-> at,
     end |-> at, inner |-> Slice(at, <<>>), children |-> <<>>, raw |-> Slice(at, text)]

\* The nodes of one element whose markup starts at offset at, the element
\* first and then its children; nbefore nodes precede them in the tree.
ElNodes(e, at, nbefore) ==
    LET open == Len(OpenMarkup(e.name, e.attrs))
        kidAt(i) == at + open + SumLen([j \in 1..(i - 1) |-> KidMarkup(e.kids[j])])
    IN  <<TagNode(e.name, e.attrs, at, InnerMarkup(e),
                  [i \in 1..Len(e.kids) |-> nbefore + 1 + i])>>
        \o [i \in 1..Len(e.kids) |->
               IF e.kids[i].kind = "raw"
               THEN RawNode(e.kids[i].text, kidAt(i))
               ELSE TagNode(e.kids[i].name, e.kids[i].attrs, kidAt(i), <<>>, <<>>)]

\* VDom::nodes(): every node of the document, in document order
RECURSIVE ParseFrom(_, _, _, _)
ParseFrom(doc, i, at, acc) ==
    IF i > Len(doc) THEN acc
    ELSE ParseFrom(doc, i + 1, at + Len(ElMarkup(doc[i])),
                   acc \o ElNodes(doc[i], at, Len(acc)))

Parse(doc) == ParseFrom(doc, 1, 0, <<>>)

\* Attributes::get: None when the tag has no such attribute, Some(None) for
\* a boolean attribute, Some(Some(value)) otherwise
attributes_get(tag, key) ==
    IF \E i \in 1..Len(tag.attrs) : tag.attrs[i].k.b = key
    THEN Some(tag.attrs[CHOOSE i \in 1..Len(tag.attrs) : tag.attrs[i].k.b = key].v)
    ELSE None

---------------------------------------------------------------------------
(* Spans, the gateway and the rules *)

Span(start, end) == [start |-> start, end |-> end]

\* Result<T, RewriterError>: err is "" for Ok(val)
Ok(val) == [err |-> "", val |-> val]

Err(kind) == [err |-> kind, val |-> None]


\* boundaries without the + 1: the span stops at the tag's last byte
boundaries_NoPlusOne(tag) == Span(tag.start, tag.end)

\* Visitor::boundaries.  The offsets of this model fit the span's integer
\* type, so the two try_into conversions succeed.
boundaries(tag) == Span(tag.start, tag.end + 1)

\* Visitor::calculate_bounds: the slice's pointer minus the buffer's pointer,
\* and that plus the slice's length
calculate_bounds(raw) == Span(raw.at, raw.at + Len(raw.b))

\* Visitor::get
get(handle) == tree[handle]

\* One rule matches attribute attr on a tag named name (the closure of
\* check_rules); a rule's attrs maps an attribute name to None (any tag) or
\* to Some(set of tag names)
RuleMatches(x, name, attr) ==
    attr \in DOMAIN x.attrs
    /\ (x.attrs[attr] = None \/ name \in x.attrs[attr][1] \/ s_star \in x.attrs[attr][1])

\* check_rules that returns the callback of the last rule that matches
check_rules_LastMatch(name, attr) ==
    IF \E i \in 1..Len(rules) : RuleMatches(rules[i], name, attr)
    THEN Some(CHOOSE i \in 1..Len(rules) :
                 /\ RuleMatches(rules[i], name, attr)
                 /\ \A j \in (i + 1)..Len(rules) : ~RuleMatches(rules[j], name, attr))
    ELSE None

\* Visitor::check_rules: the callback of the first rule that matches, named
\* by the rule's index
check_rules(name, attr) ==
    IF \E i \in 1..Len(rules) : RuleMatches(rules[i], name, attr)
    THEN Some(CHOOSE i \in 1..Len(rules) :
                 /\ RuleMatches(rules[i], name, attr)
                 /\ \A j \in 1..(i - 1) : ~RuleMatches(rules[j], name, attr))
    ELSE None


\* match_script_type that takes an absent type for no match
match_script_type_NeedsType(ty) ==
    ty # None
    /\ ty[1] \in {s_application_javascript, s_text_javascript, s_module, s_importmap}

\* Visitor::match_script_type
match_script_type(ty) ==
    ty = None
    \/ ty[1] \in {s_application_javascript, s_text_javascript, s_module, s_importmap}

\* VisitorExternalTool, the requests the pass makes
Request(kind, a, b, flag) == [kind |-> kind, a |-> a, b |-> b, flag |-> flag]

SetMetaBase(href) == Request("SetMetaBase", href, <<>>, FALSE)

Base64(code) == Request("Base64", code, <<>>, FALSE)

RewriteInlineScript(code, module) == Request("RewriteInlineScript", code, <<>>, module)

RewriteJsAttr(attr, code) == Request("RewriteJsAttr", code, attr, FALSE)

RewriteHttpEquivContent(content) == Request("RewriteHttpEquivContent", content, <<>>, FALSE)

RewriteCss(css) == Request("RewriteCss", css, <<>>, FALSE)

GetScriptText(found_head) == Request("GetScriptText", <<>>, <<>>, found_head)

\* What a callback (the gateway's, a rule's) may answer: a failure, no text,
\* or a text
Reply(st, val) == [st |-> st, val |-> val]

GatewayText(req) ==
    (CASE req.kind = "SetMetaBase" -> <<"M">>
       [] req.kind = "Base64" -> <<"B">>
       [] req.kind = "RewriteInlineScript" -> <<"S">>
       [] req.kind = "RewriteJsAttr" -> <<"J">>
       [] req.kind = "RewriteHttpEquivContent" -> <<"H">>
       [] req.kind = "RewriteCss" -> <<"C">>
       [] OTHER -> <<"G">>) \o <<"(">> \o req.a \o <<")">>

\* The three ways a callback may answer
Outcomes == {"err", "none", "text"}

\* The gateway's answer to req
Answer(req, o) ==
    IF o = "err" THEN Reply("err", None)
    ELSE IF o = "none" THEN Reply("ok", None)
    ELSE Reply("ok", Some(GatewayText(req)))

\* A rule callback's answer for an attribute value
RuleAnswer(value, o) ==
    IF o = "err" THEN Reply("err", None)
    ELSE IF o = "none" THEN Reply("ok", None)
    ELSE Reply("ok", Some(<<"/", "r", "/">> \o value))

\* Visitor::external_tool on the gateway's answer
external_tool(reply) == IF reply.st = "err" THEN Err("ExternalTool") ELSE Ok(reply.val)

\* external_tool_val that takes an absent result for the empty text
external_tool_val_EmptyText(reply) ==
    LET r == external_tool(reply)
    IN  IF r.err # "" THEN r
        ELSE IF r.val = None THEN Ok(<<>>)
        ELSE Ok(r.val[1])

\* Visitor::external_tool_val on the gateway's answer
external_tool_val(reply) ==
    LET r == external_tool(reply)
    IN  IF r.err # "" THEN r
        ELSE IF r.val = None THEN Err("ExternalToolEmpty")
        ELSE Ok(r.val[1])

---------------------------------------------------------------------------
(* The edit list (HtmlChanges) *)

Edit(ty, span, key, text) == [ty |-> ty, span |-> span, key |-> key, text |-> text]

replace_attr(span, new) == Edit("replace_attr", span, <<>>, new)

\* The span of a remove-attribute edit: from the key's start to the value's end
remove_attr(buf, key, bounds) == Edit("remove_attr", Span(key.start, bounds.end), <<>>, <<>>)

replace(span, new) == Edit("replace", span, <<>>, new)

remove_node(span) == Edit("remove_node", span, <<>>, <<>>)

insert_text(span, text) == Edit("insert_text", span, <<>>, text)

add_scram_attr(span, key, val) == Edit("add_scram_attr", span, key, val)

---------------------------------------------------------------------------
(* One step of the pass works on a frame: the edit list, the history of    *)
(* what the pass did (requests to the gateway with their answers, rule     *)
(* callbacks with their answers, text that failed to decode, edits         *)
(* appended) and the error the step returned, "" while there is none.      *)

NoRequest == Request("", <<>>, <<>>, FALSE)

NoReply == Reply("", None)

Entry(ev, node, attr, rule, req, reply, idx) ==
    [ev |-> ev, node |-> node, attr |-> attr, rule |-> rule, req |-> req,
     reply |-> reply, idx |-> idx]

Frame(c, l, e) == [changes |-> c, log |-> l, err |-> e]

\* return Err(kind)
Fail(st, kind) == [st EXCEPT !.err = kind]

\* ok_or(RewriterError::NotUtf8)? on text that is not valid
NotUtf8(st, node, attr) ==
    Frame(st.changes,
          Append(st.log, Entry("not_utf8", node, attr, 0, NoRequest, NoReply, 0)),
          "NotUtf8")

\* (self.external_tool_func)(self.alloc, tool, self.rule_data), answered
Called(st, node, attr, req, reply) ==
    [st EXCEPT !.log = Append(@, Entry("tool", node, attr, 0, req, reply, 0))]

\* (cb)(self.alloc, value, self.rule_data), answered
CalledRule(st, node, attr, rule, value, reply) ==
    [st EXCEPT !.log =
        Append(@, Entry("rule", node, attr, rule, Request("rule", value, <<>>, FALSE),
                        reply, 0))]

\* changes.add(edit)
Add(st, node, attr, edit) ==
    Frame(Append(st.changes, edit),
          Append(st.log, Entry("edit", node, attr, 0, NoRequest, NoReply,
                               Len(st.changes) + 1)),
          st.err)

---------------------------------------------------------------------------
(* The steps of Visitor::rewrite for the tag at node n *)


\* RuleChange that never looks at the type: every script src gets the marker
RuleChange_AnyScriptSrc(tag, name, attr, change) ==
    IF name = s_script /\ attr = s_src
    THEN Ok(alloc_concat_strs_array(<<change, s_type_module>>))
    ELSE Ok(change)

\* lines 241-249: the replacement a rule returned, with "?type=module"
\* appended for the src of a module script
RuleChange(tag, name, attr, change) ==
    IF name = s_script /\ attr = s_src
       /\ attributes_get(tag, s_type) # None /\ attributes_get(tag, s_type)[1] # None
    THEN LET ty == try_as_utf8_str(attributes_get(tag, s_type)[1][1])
         IN  IF ty = None THEN Err("NotUtf8")
             ELSE IF ty[1] = s_module
                  THEN Ok(alloc_concat_strs_array(<<change, s_type_module>>))
                  ELSE Ok(change)
    ELSE Ok(change)

\* RuleStep that takes an attribute without a value for one with the empty
\* value
RuleStep_BooleanToo(st, n, a, o) ==
    LET tag == get(n)
        name == tag.name.b
        k == tag.attrs[a].k
        v == tag.attrs[a].v
        attr == k.b
        cb == check_rules(name, attr)
    IN  IF cb # None /\ v = None
        THEN LET reply == RuleAnswer(<<>>, o)
                 s1 == CalledRule(st, n, a, cb[1], <<>>, reply)
                 key == calculate_bounds(k)
             IN  IF reply.st = "err" THEN Fail(s1, "Rewrite")
                 ELSE IF reply.val # None
                 THEN Add(s1, n, a, replace_attr(Span(key.end, key.end), reply.val[1]))
                 ELSE Add(s1, n, a, remove_attr(data, key, key))
        ELSE IF cb # None /\ v # None
        THEN LET value == try_as_utf8_str(v[1])
             IN  IF value = None THEN NotUtf8(st, n, a)
                 ELSE LET reply == RuleAnswer(value[1], o)
                          s1 == CalledRule(st, n, a, cb[1], value[1], reply)
                          bounds == calculate_bounds(v[1])
                      IN  IF reply.st = "err" THEN Fail(s1, "Rewrite")
                          ELSE IF reply.val # None
                          THEN LET change == RuleChange(tag, name, attr, reply.val[1])
                               IN  IF change.err # "" THEN NotUtf8(s1, n, a)
                                   ELSE Add(s1, n, a, replace_attr(bounds, change.val))
                          ELSE Add(s1, n, a,
                                   remove_attr(data, calculate_bounds(k), bounds))
        ELSE st

\* RuleStep that takes a callback without a replacement for a failure
RuleStep_RemovalFails(st, n, a, o) ==
    LET tag == get(n)
        name == tag.name.b
        k == tag.attrs[a].k
        v == tag.attrs[a].v
        attr == k.b
        cb == check_rules(name, attr)
    IN  IF cb # None /\ v # None
        THEN LET value == try_as_utf8_str(v[1])
             IN  IF value = None THEN NotUtf8(st, n, a)
                 ELSE LET reply == RuleAnswer(value[1], o)
                          s1 == CalledRule(st, n, a, cb[1], value[1], reply)
                          bounds == calculate_bounds(v[1])
                      IN  IF reply.st = "err" THEN Fail(s1, "Rewrite")
                          ELSE IF reply.val # None
                          THEN LET change == RuleChange(tag, name, attr, reply.val[1])
                               IN  IF change.err # "" THEN NotUtf8(s1, n, a)
                                   ELSE Add(s1, n, a, replace_attr(bounds, change.val))
                          ELSE Fail(s1, "Rewrite")
        ELSE st

\* lines 231-256: rule-based rewriting of attribute a; o is how the rule's
\* callback answers if it is called
RuleStep(st, n, a, o) ==
    LET tag == get(n)
        name == tag.name.b
        k == tag.attrs[a].k
        v == tag.attrs[a].v
        attr == k.b
        cb == check_rules(name, attr)
    IN  IF cb # None /\ v # None
        THEN LET value == try_as_utf8_str(v[1])
             IN  IF value = None THEN NotUtf8(st, n, a)
                 ELSE LET reply == RuleAnswer(value[1], o)
                          s1 == CalledRule(st, n, a, cb[1], value[1], reply)
                          bounds == calculate_bounds(v[1])
                      IN  IF reply.st = "err" THEN Fail(s1, "Rewrite")
                          ELSE IF reply.val # None
                          THEN LET change == RuleChange(tag, name, attr, reply.val[1])
                               IN  IF change.err # "" THEN NotUtf8(s1, n, a)
                                   ELSE Add(s1, n, a, replace_attr(bounds, change.val))
                          ELSE Add(s1, n, a,
                                   remove_attr(data, calculate_bounds(k), bounds))
        ELSE st

\* lines 258-271: interception of an event attribute; o is how the gateway
\* answers if it is asked
EventStep(st, n, a, o) ==
    LET tag == get(n)
        k == tag.attrs[a].k
        v == tag.attrs[a].v
        attr == k.b
    IN  IF attr \in EVENT_ATTRIBUTES /\ v # None
        THEN LET value == try_as_utf8_str(v[1])
                 bounds == calculate_bounds(v[1])
             IN  IF value = None THEN NotUtf8(st, n, a)
                 ELSE LET req == RewriteJsAttr(attr, value[1])
                          reply == Answer(req, o)
                          s1 == Called(st, n, a, req, reply)
                          rewritten == external_tool_val(reply)
                      IN  IF rewritten.err # "" THEN Fail(s1, rewritten.err)
                          ELSE Add(Add(s1, n, a, replace_attr(bounds, rewritten.val)),
                                   n, a, add_scram_attr(bounds, attr, value[1]))
        ELSE st

\* AttrStep that intercepts the event attribute before it looks for a rule
AttrStep_EventFirst(st, n, a, ro, go) ==
    IF try_as_utf8_str(get(n).attrs[a].k) = None THEN NotUtf8(st, n, a)
    ELSE LET s1 == EventStep(st, n, a, go)
         IN  IF s1.err # "" THEN s1 ELSE RuleStep(s1, n, a, ro)

\* lines 228-272, one iteration of the loop over the attributes
AttrStep(st, n, a, ro, go) ==
    IF try_as_utf8_str(get(n).attrs[a].k) = None THEN NotUtf8(st, n, a)
    ELSE LET s1 == RuleStep(st, n, a, ro)
         IN  IF s1.err # "" THEN s1 ELSE EventStep(s1, n, a, go)


\* BaseStep that tells the gateway only the first href of the pass
BaseStep_FirstOnly(st, n, o) ==
    LET tag == get(n)
        name == tag.name.b
        href == attributes_get(tag, s_href)
        told == \E i \in 1..Len(st.log) :
                    st.log[i].ev = "tool" /\ st.log[i].req.kind = "SetMetaBase"
    IN  IF name = s_base /\ href # None /\ href[1] # None /\ ~told
        THEN LET val == try_as_utf8_str(href[1][1])
             IN  IF val = None THEN NotUtf8(st, n, 0)
                 ELSE LET req == SetMetaBase(val[1])
                          reply == Answer(req, o)
                          s1 == Called(st, n, 0, req, reply)
                          r == external_tool(reply)
                      IN  IF r.err # "" THEN Fail(s1, r.err) ELSE s1
        ELSE st

\* lines 220-226: the base tag's href is told to the gateway
BaseStep(st, n, o) ==
    LET tag == get(n)
        name == tag.name.b
        href == attributes_get(tag, s_href)
    IN  IF name = s_base /\ href # None /\ href[1] # None
        THEN LET val == try_as_utf8_str(href[1][1])
             IN  IF val = None THEN NotUtf8(st, n, 0)
                 ELSE LET req == SetMetaBase(val[1])
                          reply == Answer(req, o)
                          s1 == Called(st, n, 0, req, reply)
                          r == external_tool(reply)
                      IN  IF r.err # "" THEN Fail(s1, r.err) ELSE s1
        ELSE st

\* StyleStep that rewrites the first raw text among the children
StyleStep_AnyRawChild(st, n, o) ==
    LET tag == get(n)
        name == tag.name.b
        raws == {i \in 1..Len(tag.children) : get(tag.children[i]).kind = "raw"}
    IN  IF name = s_style /\ raws # {}
        THEN LET first == CHOOSE i \in raws : \A j \in raws : i <= j
                 child == get(tag.children[first]).raw
                 css == try_as_utf8_str(child)
             IN  IF css = None THEN NotUtf8(st, n, 0)
                 ELSE LET req == RewriteCss(css[1])
                          reply == Answer(req, o)
                          s1 == Called(st, n, 0, req, reply)
                          rewritten == external_tool_val(reply)
                      IN  IF rewritten.err # "" THEN Fail(s1, rewritten.err)
                          ELSE Add(s1, n, 0, replace(calculate_bounds(child), rewritten.val))
        ELSE st

\* lines 274-286: the style tag's first child, if raw text, is rewritten
StyleStep(st, n, o) ==
    LET tag == get(n)
        name == tag.name.b
    IN  IF name = s_style /\ Len(tag.children) > 0 /\ get(tag.children[1]).kind = "raw"
        THEN LET child == get(tag.children[1]).raw
                 css == try_as_utf8_str(child)
             IN  IF css = None THEN NotUtf8(st, n, 0)
                 ELSE LET req == RewriteCss(css[1])
                          reply == Answer(req, o)
                          s1 == Called(st, n, 0, req, reply)
                          rewritten == external_tool_val(reply)
                      IN  IF rewritten.err # "" THEN Fail(s1, rewritten.err)
                          ELSE Add(s1, n, 0, replace(calculate_bounds(child), rewritten.val))
        ELSE st

\* lines 289-294: the value of the script tag's type attribute, as text
ScriptType(tag) ==
    LET t == attributes_get(tag, s_type)
    IN  IF t = None \/ t[1] = None THEN Ok(None)
        ELSE LET ty == try_as_utf8_str(t[1][1])
             IN  IF ty = None THEN Err("NotUtf8") ELSE Ok(ty)

\* ScriptStep that appends the text edit before the marker edit
ScriptStep_TextFirst(st, n, o1, o2) ==
    LET tag == get(n)
        name == tag.name.b
    IN  IF name # s_script THEN st
        ELSE LET ty == ScriptType(tag)
             IN  IF ty.err # "" THEN NotUtf8(st, n, 0)
                 ELSE IF match_script_type(ty.val) /\ attributes_get(tag, s_src) = None
                 THEN LET child == tag.inner
                          code == try_as_utf8_str(child)
                          module == (ty.val # None /\ ty.val[1] = s_module)
                      IN  IF code = None THEN NotUtf8(st, n, 0)
                          ELSE LET req1 == Base64(code[1])
                                   reply1 == Answer(req1, o1)
                                   s1 == Called(st, n, 0, req1, reply1)
                                   b64 == external_tool_val(reply1)
                                   req2 == RewriteInlineScript(code[1], module)
                                   reply2 == Answer(req2, o2)
                                   s2 == Called(s1, n, 0, req2, reply2)
                                   rewritten == external_tool_val(reply2)
                               IN  IF b64.err # "" THEN Fail(s1, b64.err)
                                   ELSE IF rewritten.err # "" THEN Fail(s2, rewritten.err)
                                   ELSE Add(Add(s2, n, 0,
                                                replace(calculate_bounds(child), rewritten.val)),
                                            n, 0, add_scram_attr(calculate_bounds(tag.name),
                                                                 s_script_source_src, b64.val))
                 ELSE st

\* ScriptStep that takes a src attribute without a value for no src
ScriptStep_SrcValueOnly(st, n, o1, o2) ==
    LET tag == get(n)
        name == tag.name.b
    IN  IF name # s_script THEN st
        ELSE LET ty == ScriptType(tag)
             IN  IF ty.err # "" THEN NotUtf8(st, n, 0)
                 ELSE IF match_script_type(ty.val)
                         /\ (attributes_get(tag, s_src) = None
                             \/ attributes_get(tag, s_src)[1] = None)
                 THEN LET child == tag.inner
                          code == try_as_utf8_str(child)
                          module == (ty.val # None /\ ty.val[1] = s_module)
                      IN  IF code = None THEN NotUtf8(st, n, 0)
                          ELSE LET req1 == Base64(code[1])
                                   reply1 == Answer(req1, o1)
                                   s1 == Called(st, n, 0, req1, reply1)
                                   b64 == external_tool_val(reply1)
                                   req2 == RewriteInlineScript(code[1], module)
                                   reply2 == Answer(req2, o2)
                                   s2 == Called(s1, n, 0, req2, reply2)
                                   rewritten == external_tool_val(reply2)
                               IN  IF b64.err # "" THEN Fail(s1, b64.err)
                                   ELSE IF rewritten.err # "" THEN Fail(s2, rewritten.err)
                                   ELSE Add(Add(s2, n, 0,
                                                add_scram_attr(calculate_bounds(tag.name),
                                                               s_script_source_src, b64.val)),
                                            n, 0, replace(calculate_bounds(child), rewritten.val))
                 ELSE st

\* lines 288-317: the inline script's text is encoded and rewritten
ScriptStep(st, n, o1, o2) ==
    LET tag == get(n)
        name == tag.name.b
    IN  IF name # s_script THEN st
        ELSE LET ty == ScriptType(tag)
             IN  IF ty.err # "" THEN NotUtf8(st, n, 0)
                 ELSE IF match_script_type(ty.val) /\ attributes_get(tag, s_src) = None
                 THEN LET child == tag.inner
                          code == try_as_utf8_str(child)
                          module == (ty.val # None /\ ty.val[1] = s_module)
                      IN  IF code = None THEN NotUtf8(st, n, 0)
                          ELSE LET req1 == Base64(code[1])
                                   reply1 == Answer(req1, o1)
                                   s1 == Called(st, n, 0, req1, reply1)
                                   b64 == external_tool_val(reply1)
                                   req2 == RewriteInlineScript(code[1], module)
                                   reply2 == Answer(req2, o2)
                                   s2 == Called(s1, n, 0, req2, reply2)
                                   rewritten == external_tool_val(reply2)
                               IN  IF b64.err # "" THEN Fail(s1, b64.err)
                                   ELSE IF rewritten.err # "" THEN Fail(s2, rewritten.err)
                                   ELSE Add(Add(s2, n, 0,
                                                add_scram_attr(calculate_bounds(tag.name),
                                                               s_script_source_src, b64.val)),
                                            n, 0, replace(calculate_bounds(child), rewritten.val))
                 ELSE st

\* MetaStep that compares the http-equiv value as it is written
MetaStep_CaseSensitive(st, n, o) ==
    LET tag == get(n)
        name == tag.name.b
        eqiv == attributes_get(tag, s_http_equiv)
    IN  IF name = s_meta /\ eqiv # None /\ eqiv[1] # None
        THEN LET e == try_as_utf8_str(eqiv[1][1])
             IN  IF e = None THEN NotUtf8(st, n, 0)
                 ELSE LET val == e[1]
                          content == attributes_get(tag, s_content)
                      IN  IF val = s_csp
                          THEN Add(st, n, 0, remove_node(boundaries(tag)))
                          ELSE IF val = s_refresh /\ content # None /\ content[1] # None
                          THEN LET c == try_as_utf8_str(content[1][1])
                               IN  IF c = None THEN NotUtf8(st, n, 0)
                                   ELSE LET req == RewriteHttpEquivContent(c[1])
                                            reply == Answer(req, o)
                                            s1 == Called(st, n, 0, req, reply)
                                            rewritten == external_tool_val(reply)
                                        IN  IF rewritten.err # "" THEN Fail(s1, rewritten.err)
                                            ELSE Add(s1, n, 0,
                                                     replace_attr(calculate_bounds(content[1][1]),
                                                                  rewritten.val))
                          ELSE st
        ELSE st

\* lines 319-341: a meta tag's http-equiv policy
MetaStep(st, n, o) ==
    LET tag == get(n)
        name == tag.name.b
        eqiv == attributes_get(tag, s_http_equiv)
    IN  IF name = s_meta /\ eqiv # None /\ eqiv[1] # None
        THEN LET e == try_as_utf8_str(eqiv[1][1])
             IN  IF e = None THEN NotUtf8(st, n, 0)
                 ELSE LET val == make_ascii_lowercase(e[1])
                          content == attributes_get(tag, s_content)
                      IN  IF val = s_csp
                          THEN Add(st, n, 0, remove_node(boundaries(tag)))
                          ELSE IF val = s_refresh /\ content # None /\ content[1] # None
                          THEN LET c == try_as_utf8_str(content[1][1])
                               IN  IF c = None THEN NotUtf8(st, n, 0)
                                   ELSE LET req == RewriteHttpEquivContent(c[1])
                                            reply == Answer(req, o)
                                            s1 == Called(st, n, 0, req, reply)
                                            rewritten == external_tool_val(reply)
                                        IN  IF rewritten.err # "" THEN Fail(s1, rewritten.err)
                                            ELSE Add(s1, n, 0,
                                                     replace_attr(calculate_bounds(content[1][1]),
                                                                  rewritten.val))
                          ELSE st
        ELSE st


\* lines 274-341 in their order: each step runs on what the one before it
\* returned, unless that was an error; the set holds one frame for every way
\* the gateway may answer the requests made
ContentSteps(st, n) ==
    LET styled == {StyleStep(st, n, o) : o \in Outcomes}
        scripted ==
            UNION {IF s.err # "" THEN {s}
                   ELSE {ScriptStep(s, n, o1, o2) : o1 \in Outcomes, o2 \in Outcomes} :
                   s \in styled}
    IN  UNION {IF s.err # "" THEN {s} ELSE {MetaStep(s, n, o) : o \in Outcomes} :
               s \in scripted}

\* HeadSpan as a zero-width span at the start of the head's children
HeadSpan_ZeroWidth(h) ==
    LET inner == calculate_bounds(h.inner)
    IN  Span(inner.start, inner.start)

\* lines 346-350: the span of the insert-text edit when a head tag was seen
HeadSpan(h) ==
    LET outer == boundaries(h)
        inner == calculate_bounds(h.inner)
    IN  Span(outer.start, inner.start)


\* InjectStep that does not look at from_top
InjectStep_Always(st, o) ==
    LET req == GetScriptText(head # None)
        reply == Answer(req, o)
        s1 == Called(st, Len(tree) + 1, 0, req, reply)
        text == external_tool_val(reply)
        head_span == IF head # None THEN HeadSpan(get(head[1])) ELSE Span(0, 0)
    IN  IF text.err # "" THEN Fail(s1, text.err)
        ELSE Add(s1, Len(tree) + 1, 0, insert_text(head_span, text.val))

\* lines 345-361: the bootstrap text is inserted, on a top-level pass
InjectStep(st, o) ==
    IF from_top
    THEN LET req == GetScriptText(head # None)
             reply == Answer(req, o)
             s1 == Called(st, Len(tree) + 1, 0, req, reply)
             text == external_tool_val(reply)
             head_span == IF head # None THEN HeadSpan(get(head[1])) ELSE Span(0, 0)
         IN  IF text.err # "" THEN Fail(s1, text.err)
             ELSE Add(s1, Len(tree) + 1, 0, insert_text(head_span, text.val))
    ELSE st

---------------------------------------------------------------------------
(* The inputs of a pass: the rule list and the document *)


s_onclick == <<"o", "n", "c", "l", "i", "c", "k">>

s_onload == <<"o", "n", "l", "o", "a", "d">>

s_a == <<"a">>

\* rule 1: src on any tag, onclick on <a> only, href on <base> only
Rule1 ==
    [attrs |-> [k \in {s_src, s_onclick, s_href} |->
                   IF k = s_src THEN None
                   ELSE IF k = s_onclick THEN Some({s_a}) ELSE Some({s_base})]]

\* rule 2: onclick on every tag by the wildcard, src and href on any tag
Rule2 ==
    [attrs |-> [k \in {s_src, s_onclick, s_href} |->
                   IF k = s_onclick THEN Some({s_star}) ELSE None]]

RuleLists == {<<>>, <<Rule1, Rule2>>}

(* Elements of the documents *)

\* <head onclick="x"></head>
T_head == El(s_head, <<At(s_onclick, Some(<<"x">>))>>, <<>>)

\* <base href="/x/">
T_base == El(s_base, <<At(s_href, Some(<<"/", "x", "/">>))>>, <<>>)

\* <meta http-equiv="Content-Security-Policy" content="d" onload="y">
T_meta_csp ==
    El(s_meta, <<At(s_http_equiv, Some(<<"C", "o", "n", "t", "e", "n", "t", "-", "S", "e", "c", "u", "r", "i", "t", "y", "-", "P", "o", "l", "i", "c", "y">>)),
                 At(s_content, Some(<<"d">>)), At(s_onload, Some(<<"y">>))>>, <<>>)

\* <meta http-equiv="content-security-policy">
T_meta_csp_plain == El(s_meta, <<At(s_http_equiv, Some(s_csp))>>, <<>>)

\* <meta http-equiv="Refresh" content="0">
T_meta_refresh ==
    El(s_meta, <<At(s_http_equiv, Some(<<"R", "e", "f", "r", "e", "s", "h">>)), At(s_content, Some(<<"0">>))>>, <<>>)

\* <meta http-equiv="refresh" content>
T_meta_refresh_bool ==
    El(s_meta, <<At(s_http_equiv, Some(s_refresh)), At(s_content, None)>>, <<>>)

\* <meta http-equiv="REFRESH">
T_meta_refresh_only == El(s_meta, <<At(s_http_equiv, Some(<<"R", "E", "F", "R", "E", "S", "H">>))>>, <<>>)

\* <meta http-equiv="x" content="c">
T_meta_other ==
    El(s_meta, <<At(s_http_equiv, Some(<<"x">>)), At(s_content, Some(<<"c">>))>>, <<>>)

\* <meta content="c">
T_meta_plain == El(s_meta, <<At(s_content, Some(<<"c">>))>>, <<>>)

\* <a http-equiv="content-security-policy" content="c"></a>
T_a_csp ==
    El(s_a, <<At(s_http_equiv, Some(s_csp)), At(s_content, Some(<<"c">>))>>, <<>>)

\* <script>c</script>
T_script_inline == El(s_script, <<>>, <<RawKid(<<"c">>)>>)

\* <script type="module">c</script>
T_script_module == El(s_script, <<At(s_type, Some(s_module))>>, <<RawKid(<<"c">>)>>)

\* <script type>c</script>
T_script_type_bool == El(s_script, <<At(s_type, None)>>, <<RawKid(<<"c">>)>>)

\* <script src="a" type="module"></script>
T_script_module_src ==
    El(s_script, <<At(s_src, Some(<<"a">>)), At(s_type, Some(s_module))>>, <<>>)

\* <script type="Module" src="a"></script>
T_script_Module_src ==
    El(s_script, <<At(s_type, Some(<<"M", "o", "d", "u", "l", "e">>)), At(s_src, Some(<<"a">>))>>, <<>>)

\* <script type="application/json">{}</script>
T_script_json == El(s_script, <<At(s_type, Some(<<"a", "p", "p", "l", "i", "c", "a", "t", "i", "o", "n", "/", "j", "s", "o", "n">>))>>, <<RawKid(<<"{", "}">>)>>)

\* <script type="Module">c</script>
T_script_Module ==
    El(s_script, <<At(s_type, Some(<<"M", "o", "d", "u", "l", "e">>))>>, <<RawKid(<<"c">>)>>)

\* <script src>c</script>
T_script_src_bool == El(s_script, <<At(s_src, None)>>, <<RawKid(<<"c">>)>>)

\* <a src="a" type="module"></a>
T_a_module_src ==
    El(s_a, <<At(s_src, Some(<<"a">>)), At(s_type, Some(s_module))>>, <<>>)

\* <style>s</style>
T_style_raw == El(s_style, <<>>, <<RawKid(<<"s">>)>>)

\* <style onload="y">s</style>
T_style_event == El(s_style, <<At(s_onload, Some(<<"y">>))>>, <<RawKid(<<"s">>)>>)

\* <style><a type></a>s</style>
T_style_tag_first ==
    El(s_style, <<>>, <<TagKid(s_a, <<At(s_type, None)>>), RawKid(<<"s">>)>>)

\* <style></style>
T_style_empty == El(s_style, <<>>, <<>>)

\* <a>s</a>
T_a_raw == El(s_a, <<>>, <<RawKid(<<"s">>)>>)

\* <a onclick="x" href></a>
T_a_onclick == El(s_a, <<At(s_onclick, Some(<<"x">>)), At(s_href, None)>>, <<>>)

\* <a onclick="x" onload="y"></a>
T_a_two_events ==
    El(s_a, <<At(s_onclick, Some(<<"x">>)), At(s_onload, Some(<<"y">>))>>, <<>>)

\* <a onload="" onclick></a>
T_a_empty == El(s_a, <<At(s_onload, Some(<<>>)), At(s_onclick, None)>>, <<>>)

\* <a onload="?"></a>, the value one byte that is not valid text
T_a_invalid == El(s_a, <<At(s_onload, Some(<<InvalidByte>>))>>, <<>>)

\* The elements of the documents of Spec: one of every kind of tag the pass
\* treats
Templates ==
    {T_head, T_base, T_meta_csp, T_meta_refresh, T_script_inline, T_script_module_src,
     T_style_raw, T_a_onclick, T_a_two_events, T_a_empty, T_a_invalid}

\* The elements of the documents of SpecScript: the script tags
ScriptTemplates ==
    {T_script_inline, T_script_module, T_script_type_bool, T_script_module_src,
     T_script_Module_src, T_script_Module, T_script_json, T_script_src_bool,
     T_a_module_src, T_a_onclick}

\* The elements of the documents of SpecMeta: the meta tags
MetaTemplates ==
    {T_meta_csp, T_meta_csp_plain, T_meta_refresh, T_meta_refresh_bool,
     T_meta_refresh_only, T_meta_other, T_meta_plain, T_a_csp}

\* The elements of the documents of SpecStyle: the style tags
StyleTemplates ==
    {T_style_raw, T_style_event, T_style_tag_first, T_style_empty, T_a_raw, T_head}

\* The longest document, in top-level elements
MaxTags == 2

RECURSIVE DocsOfLen(_, _)
DocsOfLen(T, n) ==
    IF n = 0 THEN {<<>>}
    ELSE {Append(d, e) : d \in DocsOfLen(T, n - 1), e \in T}

\* The documents of up to MaxTags elements of T
Docs(T) == UNION {DocsOfLen(T, n) : n \in 0..MaxTags}

---------------------------------------------------------------------------
(* The pass *)

\* The pass starts on a document of elements of T
InitOver(T) ==
    /\ \E doc \in Docs(T) : data = Serialize(doc) /\ tree = Parse(doc)
    /\ rules \in RuleLists
    /\ from_top \in BOOLEAN
    /\ changes = <<>>
    /\ head = None
    /\ pc = IF Len(tree) = 0 THEN "top" ELSE "node"
    /\ ni = 1
    /\ ai = 0
    /\ log = <<>>
    /\ result = "running"

Here == Frame(changes, log, "")


\* Commit that records the error and lets the pass go on
Commit_KeepGoing(st, nextpc, nextni, nextai) ==
    /\ changes' = st.changes
    /\ log' = st.log
    /\ result' = IF st.err # "" THEN st.err ELSE result
    /\ pc' = nextpc /\ ni' = nextni /\ ai' = nextai

\* The step returned st: its edits are in the list; an error ends the pass
Commit(st, nextpc, nextni, nextai) ==
    /\ changes' = st.changes
    /\ log' = st.log
    /\ IF st.err # ""
       THEN result' = st.err /\ pc' = "done" /\ ni' = ni /\ ai' = ai
       ELSE result' = result /\ pc' = nextpc /\ ni' = nextni /\ ai' = nextai

\* Where the loop over the nodes goes after node n
AfterNode(n) == IF n < Len(tree) THEN "node" ELSE "top"

\* lines 212-226: the next node; a tag's name is decoded, the first head is
\* kept, a base tag's href is told to the gateway
VisitNode ==
    /\ pc = "node"
    /\ UNCHANGED <<data, tree, rules, from_top>>
    /\ IF get(ni).kind # "tag"
       THEN /\ Commit(Here, AfterNode(ni), ni + 1, 0)
            /\ UNCHANGED head
       ELSE IF try_as_utf8_str(get(ni).name) = None
       THEN /\ Commit(NotUtf8(Here, ni, 0), "done", ni, 0)
            /\ UNCHANGED head
       ELSE /\ head' = IF get(ni).name.b = s_head /\ head = None THEN Some(ni) ELSE head
            /\ \E st \in {BaseStep(Here, ni, o) : o \in Outcomes} :
                  Commit(st, IF Len(get(ni).attrs) > 0 THEN "attr" ELSE "content", ni, 1)

\* lines 228-272: the next attribute of the tag
VisitAttr ==
    /\ pc = "attr"
    /\ UNCHANGED <<data, tree, rules, from_top, head>>
    /\ \E st \in {AttrStep(Here, ni, ai, ro, go) : ro \in Outcomes, go \in Outcomes} :
          Commit(st, IF ai < Len(get(ni).attrs) THEN "attr" ELSE "content", ni, ai + 1)

\* lines 274-341: the tag's content (style text, inline script, meta policy),
\* one step after the other, and on to the next node
RewriteContent ==
    /\ pc = "content"
    /\ UNCHANGED <<data, tree, rules, from_top, head>>
    /\ \E st \in ContentSteps(Here, ni) : Commit(st, AfterNode(ni), ni + 1, 0)

\* lines 345-363: after the loop
Finish ==
    /\ pc = "top"
    /\ UNCHANGED <<data, tree, rules, from_top, head>>
    /\ \E st \in {InjectStep(Here, o) : o \in Outcomes} :
          /\ changes' = st.changes
          /\ log' = st.log
          /\ result' = IF st.err # "" THEN st.err ELSE "ok"
          /\ pc' = "done"
          /\ UNCHANGED <<ni, ai>>

Next == VisitNode \/ VisitAttr \/ RewriteContent \/ Finish

Init == InitOver(Templates)

Spec == Init /\ [][Next]_vars

\* The pass over documents of script tags
InitScript == InitOver(ScriptTemplates)

SpecScript == InitScript /\ [][Next]_vars

\* The pass over documents of meta tags
InitMeta == InitOver(MetaTemplates)

SpecMeta == InitMeta /\ [][Next]_vars

\* The pass over documents of style tags
InitStyle == InitOver(StyleTemplates)

SpecStyle == InitStyle /\ [][Next]_vars

---------------------------------------------------------------------------
(* Vocabulary of the properties *)

Tags == {n \in 1..Len(tree) : tree[n].kind = "tag"}

Named(n, name) == tree[n].kind = "tag" /\ tree[n].name.b = name

\* The pass is done with node n
Passed(n) == ni > n

Failed == result \notin {"running", "ok"}

\* The edits the pass appended for node n (attribute a; 0: the tag itself)
EditsOf(n, a) ==
    {log[i].idx : i \in {j \in 1..Len(log) : log[j].ev = "edit" /\ log[j].node = n
                                             /\ log[j].attr = a}}

EditsOfNode(n) ==
    {log[i].idx : i \in {j \in 1..Len(log) : log[j].ev = "edit" /\ log[j].node = n}}

\* The gateway requests of one kind made for node n
Requests(n, kind) ==
    {i \in 1..Len(log) : log[i].ev = "tool" /\ log[i].node = n /\ log[i].req.kind = kind}

AllRequests(kind) == {i \in 1..Len(log) : log[i].ev = "tool" /\ log[i].req.kind = kind}

\* The byte range of a slice of the buffer
RangeOf(s) == [start |-> s.at, end |-> s.at + Len(s.b)]

HasAttr(n, key) == \E i \in 1..Len(tree[n].attrs) : tree[n].attrs[i].k.b = key

\* Attribute key of node n has a value (it is present and not boolean)
HasValue(n, key) ==
    \E i \in 1..Len(tree[n].attrs) : tree[n].attrs[i].k.b = key /\ tree[n].attrs[i].v # None

ValueSlice(n, key) ==
    tree[n].attrs[CHOOSE i \in 1..Len(tree[n].attrs) : tree[n].attrs[i].k.b = key].v[1]

\* Two bytes are the same ASCII letter in either case, or the same byte
SameIgnoringCase(c, d) ==
    c = d \/ \E i \in 1..Len(UPPER) : {c, d} = {UPPER[i], LOWER[i]}

EqualsIgnoringCase(x, y) ==
    Len(x) = Len(y) /\ \A i \in 1..Len(x) : SameIgnoringCase(x[i], y[i])

IsText(b) == \A i \in 1..Len(b) : b[i] # InvalidByte

Overlap(s1, s2) == s1.start < s2.end /\ s2.start < s1.end

---------------------------------------------------------------------------
(* C1 *)

\* The replace-attribute-value edits and the marker edits on a span
ReplacesOn(span) ==
    {i \in 1..Len(changes) : changes[i].ty = "replace_attr" /\ changes[i].span = span}

MarkersOn(span) ==
    {i \in 1..Len(changes) : changes[i].ty = "add_scram_attr" /\ changes[i].span = span}

\* Attribute a of node n is an event attribute with a non-empty value
EventAttr(n, a) ==
    /\ tree[n].attrs[a].k.b \in EVENT_ATTRIBUTES
    /\ tree[n].attrs[a].v # None
    /\ tree[n].attrs[a].v[1].b # <<>>

\* C1: after a successful pass every event attribute with a non-empty value
\* has, on its value's span, exactly one replace-attribute-value edit, which
\* carries the answer to its RewriteJsAttr request, and exactly one marker
\* edit, which carries the attribute's name and its original value; also
\* when a rule matches the attribute.
C1_OneReplaceOneMarker ==
    result = "ok" =>
        \A n \in Tags : \A a \in 1..Len(tree[n].attrs) :
            EventAttr(n, a) =>
                LET v == tree[n].attrs[a].v[1]
                    span == RangeOf(v)
                IN  /\ Cardinality(ReplacesOn(span)) = 1
                    /\ Cardinality(MarkersOn(span)) = 1
                    /\ \A i \in ReplacesOn(span) :
                          \E j \in Requests(n, "RewriteJsAttr") :
                              /\ log[j].attr = a
                              /\ log[j].reply.val = Some(changes[i].text)
                    /\ \A i \in MarkersOn(span) :
                          /\ changes[i].key = tree[n].attrs[a].k.b
                          /\ changes[i].text = v.b

---------------------------------------------------------------------------
(* C2 *)

\* A marker edit is anchored at the span of the value it annotates: the pair
\* of an add-marker-attribute edit and another edit on the very same span is
\* not counted as an overlap.
Anchored(e1, e2) ==
    e1.span = e2.span /\ (e1.ty = "add_scram_attr" \/ e2.ty = "add_scram_attr")

\* C2: after a successful pass every edit's span has 0 <= start <= end and no
\* two edits of the list have overlapping spans, also when a rule and the
\* event interception both fire on one attribute, when a meta tag that is
\* removed carries edited attributes, and for the insert-text edit against
\* the edits of the head tag's attributes.
C2_SpansDisjoint ==
    result = "ok" =>
        /\ \A i \in 1..Len(changes) :
              0 <= changes[i].span.start /\ changes[i].span.start <= changes[i].span.end
        /\ \A i \in 1..Len(changes) : \A j \in 1..Len(changes) :
              (i < j /\ ~Anchored(changes[i], changes[j]))
                  => ~Overlap(changes[i].span, changes[j].span)

---------------------------------------------------------------------------
(* C3 *)

HasHead == \E n \in Tags : Named(n, s_head)

FirstHead == CHOOSE n \in Tags : Named(n, s_head) /\ \A m \in Tags : m < n => ~Named(m, s_head)

\* The offset just after the first '>' at or after the start of tag n: where
\* the tag's opening markup ends (no attribute value of these documents holds
\* a '>')
OpenEnd(n) ==
    1 + CHOOSE o \in tree[n].start..(Len(data) - 1) :
            /\ data[o + 1] = ">"
            /\ \A q \in tree[n].start..(o - 1) : data[q + 1] # ">"

InsertTexts == {i \in 1..Len(changes) : changes[i].ty = "insert_text"}

---------------------------------------------------------------------------
(* C4 *)

BasesWithHref == {n \in Tags : Named(n, s_base) /\ HasValue(n, s_href)}

\* C4: only the first base tag with an href value is told to the gateway, so
\* a pass makes at most one SetMetaBase request; and the base handling
\* appends no edit.
C4_SetMetaBaseOnce ==
    /\ Cardinality(AllRequests("SetMetaBase")) <= 1
    /\ \A i \in AllRequests("SetMetaBase") :
          log[i].node \in BasesWithHref /\ \A m \in BasesWithHref : log[i].node <= m
    /\ \A n \in Tags : Named(n, s_base) => EditsOf(n, 0) = {}

---------------------------------------------------------------------------
(* C5 *)

\* Node n is a meta tag whose http-equiv value is "content-security-policy"
\* in some letter case
CspMeta(n) ==
    /\ Named(n, s_meta)
    /\ HasValue(n, s_http_equiv)
    /\ EqualsIgnoringCase(ValueSlice(n, s_http_equiv).b, s_csp)

\* C5: for every Content-Security-Policy meta tag the pass is done with, the
\* list holds exactly one remove-node edit for the tag, its span from the
\* tag's first byte to one past its last byte, whatever else the tag carries,
\* and no RewriteHttpEquivContent request was made for it.
C5_CspMetaRemoved ==
    \A n \in Tags :
        (CspMeta(n) /\ Passed(n)) =>
            LET rm == {i \in EditsOfNode(n) : changes[i].ty = "remove_node"}
            IN  /\ Cardinality(rm) = 1
                /\ \A i \in rm :
                      /\ changes[i].span = [start |-> tree[n].start, end |-> tree[n].end + 1]
                      /\ data[changes[i].span.start + 1] = "<"
                      /\ data[changes[i].span.end] = ">"
                      /\ \A j \in 1..Len(changes) :
                            (changes[j].ty = "remove_node" /\ changes[j].span = changes[i].span)
                                => j = i
                /\ Requests(n, "RewriteHttpEquivContent") = {}

\* C5's case: a pass succeeded on a document with a Content-Security-Policy
\* meta tag, spelt with capitals, that carries a content value
C5_Witness ==
    /\ result = "ok"
    /\ \E n \in Tags :
          /\ CspMeta(n) /\ HasValue(n, s_content)
          /\ ValueSlice(n, s_http_equiv).b # s_csp
          /\ \E i \in EditsOfNode(n) : changes[i].ty = "remove_node"

---------------------------------------------------------------------------
(* C6 *)

\* Node n is a script tag with no src attribute whose type is absent (or has
\* no value) or is one of the four script types
InlineScript(n) ==
    /\ Named(n, s_script)
    /\ ~HasAttr(n, s_src)
    /\ \/ ~HasValue(n, s_type)
       \/ ValueSlice(n, s_type).b \in
              {s_application_javascript, s_text_javascript, s_module, s_importmap}

IsModule(n) == HasValue(n, s_type) /\ ValueSlice(n, s_type).b = s_module

\* C6: after a successful pass, every such script tag has caused a Base64
\* request and then a RewriteInlineScript request on its inner text (module
\* flag true exactly for type "module"), then one marker edit named
\* script-source-src at the tag name's span carrying the Base64 answer, then
\* one replace-text-span edit over the inner text carrying the rewritten
\* code; and exactly one of each.
C6_InlineScriptRewritten ==
    result = "ok" =>
        \A n \in Tags :
            InlineScript(n) =>
                /\ \E i \in 1..(Len(log) - 3) :
                      /\ log[i].ev = "tool" /\ log[i].node = n
                      /\ log[i].req.kind = "Base64"
                      /\ log[i].req.a = tree[n].inner.b
                      /\ log[i + 1].ev = "tool" /\ log[i + 1].node = n
                      /\ log[i + 1].req.kind = "RewriteInlineScript"
                      /\ log[i + 1].req.a = tree[n].inner.b
                      /\ log[i + 1].req.flag = IsModule(n)
                      /\ log[i + 2].ev = "edit" /\ log[i + 2].node = n
                      /\ changes[log[i + 2].idx] =
                             [ty |-> "add_scram_attr", span |-> RangeOf(tree[n].name),
                              key |-> s_script_source_src, text |-> log[i].reply.val[1]]
                      /\ log[i + 3].ev = "edit" /\ log[i + 3].node = n
                      /\ changes[log[i + 3].idx] =
                             [ty |-> "replace", span |-> RangeOf(tree[n].inner),
                              key |-> <<>>, text |-> log[i + 1].reply.val[1]]
                /\ Cardinality(Requests(n, "Base64")) = 1
                /\ Cardinality(Requests(n, "RewriteInlineScript")) = 1
                /\ Cardinality({i \in EditsOfNode(n) :
                                   changes[i].ty = "add_scram_attr"
                                   /\ changes[i].key = s_script_source_src}) = 1
                /\ Cardinality({i \in EditsOfNode(n) : changes[i].ty = "replace"}) = 1

\* C6's case: a pass succeeded on a document with an inline script without a
\* type and an inline module script
C6_Witness ==
    /\ result = "ok"
    /\ \E n \in Tags : InlineScript(n) /\ IsModule(n) /\ Requests(n, "Base64") # {}
    /\ \E n \in Tags : InlineScript(n) /\ ~HasAttr(n, s_type) /\ Requests(n, "Base64") # {}

---------------------------------------------------------------------------
(* C7 *)

\* Attribute a of node n is the src of a script tag whose type is "module"
ModuleSrc(n, a) ==
    Named(n, s_script) /\ tree[n].attrs[a].k.b = s_src /\ IsModule(n)

\* The rule callbacks that returned a replacement
RuleReplacements ==
    {i \in 1..Len(log) : log[i].ev = "rule" /\ log[i].reply.st = "ok"
                         /\ log[i].reply.val # None}

\* C7: when a rule callback returns a replacement R for an attribute, the
\* edit appended next is a replace-attribute-value edit over the value's span
\* that carries R followed by "?type=module" if the attribute is the src of a
\* script tag whose type is exactly "module", and exactly R otherwise (no
\* edit follows only when that type value is not valid text).
C7_ModuleSuffix ==
    \A i \in RuleReplacements :
        /\ i < Len(log)
        /\ log[i + 1].ev = "edit" \/ log[i + 1].ev = "not_utf8"
        /\ log[i + 1].ev = "not_utf8" =>
               (HasValue(log[i].node, s_type)
                /\ ~IsText(ValueSlice(log[i].node, s_type).b))
        /\ log[i + 1].ev = "edit" =>
           /\ log[i + 1].node = log[i].node /\ log[i + 1].attr = log[i].attr
           /\ LET n == log[i].node
                  a == log[i].attr
                  R == log[i].reply.val[1]
                  e == changes[log[i + 1].idx]
              IN  /\ e.ty = "replace_attr"
                  /\ e.span = RangeOf(tree[n].attrs[a].v[1])
                  /\ e.text = IF ModuleSrc(n, a) THEN R \o s_type_module ELSE R

\* C7's case: a rule returned a replacement for the src of a module script,
\* and one for the src of a script whose type is not "module"
C7_Witness ==
    /\ \E i \in RuleReplacements :
          /\ ModuleSrc(log[i].node, log[i].attr)
          /\ changes[log[i + 1].idx].text = log[i].reply.val[1] \o s_type_module
    /\ \E i \in RuleReplacements :
          /\ Named(log[i].node, s_script)
          /\ tree[log[i].node].attrs[log[i].attr].k.b = s_src
          /\ ~IsModule(log[i].node)

---------------------------------------------------------------------------
(* C8 *)

\* The pass has handled the base check of node n
Visited(n) == ni > n \/ (ni = n /\ pc # "node")

\* The gateway requests and rule callbacks
Calls == {i \in 1..Len(log) : log[i].ev \in {"tool", "rule"}}

\* C8: for a base tag with an href at node n, the SetMetaBase request
\* carrying that href is made once the tag is visited, after every request
\* and callback that arises from an earlier node and before every one that
\* arises from the base tag's own attributes or from a later node.
C8_SetMetaBaseInDocumentOrder ==
    /\ \A n \in BasesWithHref :
          (Visited(n) /\ IsText(ValueSlice(n, s_href).b)) =>
              \E i \in Requests(n, "SetMetaBase") : log[i].req.a = ValueSlice(n, s_href).b
    /\ \A i \in AllRequests("SetMetaBase") : \A j \in Calls \ {i} :
          /\ log[j].node < log[i].node => j < i
          /\ (log[j].node > log[i].node \/ (log[j].node = log[i].node /\ log[j].attr > 0))
                 => i < j

\* C8's case: a base tag's SetMetaBase request with calls before it and a call
\* from the base tag's own attribute after it
C8_Witness ==
    \E i \in AllRequests("SetMetaBase") :
        /\ \E j \in Calls : j < i
        /\ \E j \in Calls : j > i /\ log[j].node = log[i].node /\ log[j].attr > 0

---------------------------------------------------------------------------
(* C9 *)

\* A step that fails: text that is not valid, a rule callback or a gateway
\* request that fails, a mandatory gateway answer that is absent
FailingEntry(e) ==
    \/ e.ev = "not_utf8"
    \/ e.ev = "rule" /\ e.reply.st = "err"
    \/ e.ev = "tool" /\ e.reply.st = "err"
    \/ e.ev = "tool" /\ e.reply.st = "ok" /\ e.reply.val = None
          /\ e.req.kind # "SetMetaBase"

\* C9: a failing step is the last thing the pass does: nothing follows it in
\* the history (no request, no callback, no edit), the pass has returned its
\* error, and the list holds no insert-text edit; and every edit of the list
\* is in the history.
C9_FailureAborts ==
    /\ \A i \in 1..Len(log) :
          FailingEntry(log[i]) => (i = Len(log) /\ Failed /\ pc = "done" /\ InsertTexts = {})
    /\ Failed => (Len(log) > 0 /\ FailingEntry(log[Len(log)]))
    /\ \A k \in 1..Len(changes) : \E i \in 1..Len(log) : log[i].ev = "edit" /\ log[i].idx = k

\* C9's case: the pass failed on a mandatory answer that was absent, after it
\* had made other requests and appended edits
C9_Witness ==
    /\ Failed /\ result = "ExternalToolEmpty"
    /\ Len(changes) >= 2 /\ Len(log) >= 4
    /\ ni < Len(tree)

---------------------------------------------------------------------------
(* C10 *)

\* C10: a successful top-level pass makes exactly one GetScriptText request,
\* its last gateway request, with found_head true exactly when the document
\* has a head tag, and appends exactly one insert-text edit, the last edit of
\* the list, carrying the answer, with span (0,0) when there is no head tag;
\* a pass that is not top-level makes no such request and appends no such
\* edit.
C10_BootstrapOnce ==
    /\ (result = "ok" /\ from_top) =>
          /\ Cardinality(AllRequests("GetScriptText")) = 1
          /\ \A i \in AllRequests("GetScriptText") :
                /\ \A j \in 1..Len(log) : (j > i) => log[j].ev # "tool"
                /\ log[i].req.flag = HasHead
                /\ Some(changes[Len(changes)].text) = log[i].reply.val
          /\ Cardinality(InsertTexts) = 1
          /\ changes[Len(changes)].ty = "insert_text"
          /\ ~HasHead => changes[Len(changes)].span = [start |-> 0, end |-> 0]
    /\ ~from_top => (AllRequests("GetScriptText") = {} /\ InsertTexts = {})

\* C10's case: a top-level pass succeeded on a document without a head tag and
\* appended other edits before the insert-text edit
C10_Witness ==
    /\ result = "ok" /\ from_top /\ ~HasHead
    /\ Len(changes) >= 3
    /\ changes[Len(changes)].ty = "insert_text"

---------------------------------------------------------------------------
(* C11 *)

\* The rule callbacks invoked for attribute a of node n
RuleCalls(n, a) ==
    {i \in 1..Len(log) : log[i].ev = "rule" /\ log[i].node = n /\ log[i].attr = a}

\* Rule i lists attribute attr for a tag named name: for any tag, or for a
\* set of names that holds name or the wildcard
Lists(i, name, attr) ==
    /\ attr \in DOMAIN rules[i].attrs
    /\ \/ rules[i].attrs[attr] = None
       \/ \E names \in {rules[i].attrs[attr][1]} : name \in names \/ <<"*">> \in names

\* The pass is done with attribute a of node n
PassedAttr(n, a) == ni > n \/ (ni = n /\ (pc = "content" \/ (pc = "attr" /\ ai > a)))

\* C11: for an attribute with a value on a tag, at most one rule callback is
\* invoked, that of the lowest-index rule that lists the attribute for the
\* tag's name (any tag, a set with the name, or a set with "*"); a later rule
\* that also lists it is never invoked, and an earlier rule that lists the
\* attribute for other names only does not stop the scan: once the pass is
\* done with the attribute, the callback of the lowest such rule was invoked
\* with the attribute's value.
C11_FirstMatchingRuleOnly ==
    \A n \in Tags : \A a \in 1..Len(tree[n].attrs) :
        LET name == tree[n].name.b
            attr == tree[n].attrs[a].k.b
            v == tree[n].attrs[a].v
            listing == {i \in 1..Len(rules) : Lists(i, name, attr)}
        IN  /\ Cardinality(RuleCalls(n, a)) <= 1
            /\ \A c \in RuleCalls(n, a) :
                  /\ v # None
                  /\ log[c].rule \in listing
                  /\ \A i \in listing : log[c].rule <= i
                  /\ log[c].req.a = v[1].b
            /\ (PassedAttr(n, a) /\ v # None /\ IsText(v[1].b) /\ listing # {})
                  => RuleCalls(n, a) # {}

\* C11's case: in one pass the second rule's callback was invoked for an
\* attribute the first rule lists for other tag names only, and the first
\* rule's callback was invoked for an attribute the second rule lists too
C11_Witness ==
    /\ \E c \in 1..Len(log) :
          /\ log[c].ev = "rule" /\ log[c].rule = 2
          /\ tree[log[c].node].attrs[log[c].attr].k.b \in DOMAIN rules[1].attrs
          /\ ~Lists(1, tree[log[c].node].name.b, tree[log[c].node].attrs[log[c].attr].k.b)
    /\ \E c \in 1..Len(log) :
          /\ log[c].ev = "rule" /\ log[c].rule = 1
          /\ Lists(2, tree[log[c].node].name.b, tree[log[c].node].attrs[log[c].attr].k.b)

---------------------------------------------------------------------------
(* C12 *)

\* The rule callbacks that returned no replacement
Removals == {c \in 1..Len(log) : log[c].ev = "rule" /\ log[c].reply = Reply("ok", None)}

\* The edits of one type the pass appended for attribute a of node n
EditsOfType(n, a, ty) == {i \in EditsOf(n, a) : changes[i].ty = ty}

\* C12: when the rule callback returns no replacement for an attribute with a
\* value, the very next thing the pass does is append a remove-attribute edit
\* whose span runs from the key's start to the value's end; it is the only
\* remove-attribute edit for the attribute, every replace-attribute-value
\* edit for the attribute is the one that follows a RewriteJsAttr request, and
\* the pass goes on: to the event interception of the attribute if its name is
\* an event attribute, to what follows the attribute otherwise; if the pass
\* failed, it failed later.
C12_RemovalIsNotAnError ==
    \A c \in Removals :
        LET n == log[c].node
            a == log[c].attr
            k == tree[n].attrs[a].k
            v == tree[n].attrs[a].v
        IN  /\ v # None
            /\ c < Len(log)
            /\ log[c + 1].ev = "edit" /\ log[c + 1].node = n /\ log[c + 1].attr = a
            /\ changes[log[c + 1].idx].ty = "remove_attr"
            /\ changes[log[c + 1].idx].span =
                   [start |-> RangeOf(k).start, end |-> RangeOf(v[1]).end]
            /\ Cardinality(EditsOfType(n, a, "remove_attr")) = 1
            /\ \A j \in 1..Len(log) :
                  (log[j].ev = "edit" /\ log[j].node = n /\ log[j].attr = a
                   /\ changes[log[j].idx].ty = "replace_attr")
                      => (j > c + 2 /\ log[j - 1].ev = "tool"
                          /\ log[j - 1].req.kind = "RewriteJsAttr")
            /\ Failed => Len(log) > c + 1
            /\ IF k.b \in EVENT_ATTRIBUTES
               THEN /\ Len(log) > c + 1
                    /\ log[c + 2].ev = "tool" /\ log[c + 2].node = n /\ log[c + 2].attr = a
                    /\ log[c + 2].req = RewriteJsAttr(k.b, v[1].b)
               ELSE PassedAttr(n, a)

\* C12's case: a pass succeeded in which a rule's callback asked for the
\* removal of an attribute that is not an event attribute and of one that is
C12_Witness ==
    /\ result = "ok"
    /\ \E c \in Removals :
          tree[log[c].node].attrs[log[c].attr].k.b \notin EVENT_ATTRIBUTES
    /\ \E c \in Removals :
          tree[log[c].node].attrs[log[c].attr].k.b \in EVENT_ATTRIBUTES

---------------------------------------------------------------------------
(* C13 *)

\* The gateway requests that were answered without a result
Absent == {c \in 1..Len(log) : log[c].ev = "tool" /\ log[c].reply = Reply("ok", None)}

MandatoryKinds ==
    {"Base64", "RewriteInlineScript", "RewriteJsAttr", "RewriteHttpEquivContent",
     "RewriteCss", "GetScriptText"}

\* C13: a gateway request of a mandatory kind (Base64, RewriteInlineScript,
\* RewriteJsAttr, RewriteHttpEquivContent, RewriteCss, GetScriptText) answered
\* without a result is the last thing the pass does: the pass returns the
\* empty-result error and the step that made the request appended no edit
\* (the edits for the same attribute, if any, are those that follow the rule
\* callback); a SetMetaBase request answered without a result is no error:
\* if the pass fails it fails on something it does later, and if it does
\* nothing later it ends well.
C13_AbsentResult ==
    \A c \in Absent :
        LET n == log[c].node
            a == log[c].attr
        IN  IF log[c].req.kind = "SetMetaBase"
            THEN /\ Failed => Len(log) > c
                 /\ (pc = "done" /\ Len(log) = c) => result = "ok"
            ELSE /\ log[c].req.kind \in MandatoryKinds
                 /\ c = Len(log)
                 /\ result = "ExternalToolEmpty" /\ pc = "done"
                 /\ \A j \in 1..Len(log) :
                       (log[j].ev = "edit" /\ log[j].node = n /\ log[j].attr = a)
                           => (a > 0 /\ j > 1 /\ log[j - 1].ev = "rule")

\* C13's case: a SetMetaBase request was answered without a result, the pass
\* went on and appended an edit, and then failed on a RewriteInlineScript
\* request answered without a result, after the Base64 request was answered
C13_Witness ==
    /\ result = "ExternalToolEmpty"
    /\ Len(changes) > 0
    /\ \E c \in Absent : log[c].req.kind = "SetMetaBase"
    /\ \E c \in Absent :
          /\ log[c].req.kind = "RewriteInlineScript"
          /\ log[c - 1].ev = "tool" /\ log[c - 1].req.kind = "Base64"
          /\ log[c - 1].reply.val # None

---------------------------------------------------------------------------
(* C14 *)

\* The rule callback at c of the history answered, with a replacement or
\* without one
RuleAnswered(c) == log[c].ev = "rule" /\ log[c].reply.st = "ok"

\* The edit the history entry at j stands for
EditAt(j) == changes[log[j].idx]

\* C14: when an attribute with a value is matched by a rule and named in the
\* event-attribute table, both transformations are applied.  Once the rule's
\* callback has answered, the history goes on, for the same attribute, with
\* the rule's edit (a replace-attribute-value edit over the value's span, or a
\* remove-attribute edit), then the RewriteJsAttr request, which carries the
\* attribute's name and its original value and not the rule's replacement;
\* and once the gateway has answered that with a text, with the
\* replace-attribute-value edit carrying the answer and then the marker edit
\* carrying the name and the original value, the three edits next to each
\* other in the list in this order.
C14_RuleThenEvent ==
    \A c \in 1..Len(log) :
        (RuleAnswered(c) /\ tree[log[c].node].attrs[log[c].attr].k.b \in EVENT_ATTRIBUTES) =>
            LET n == log[c].node
                a == log[c].attr
                attr == tree[n].attrs[a].k.b
                v == tree[n].attrs[a].v[1]
                Mine(j) == j <= Len(log) /\ log[j].node = n /\ log[j].attr = a
            IN  /\ Mine(c + 1) /\ log[c + 1].ev = "edit"
                /\ IF log[c].reply.val = None
                   THEN EditAt(c + 1).ty = "remove_attr"
                   ELSE /\ EditAt(c + 1).ty = "replace_attr"
                        /\ EditAt(c + 1).span = RangeOf(v)
                        /\ EditAt(c + 1).text = log[c].reply.val[1]
                /\ Mine(c + 2) /\ log[c + 2].ev = "tool"
                /\ log[c + 2].req = RewriteJsAttr(attr, v.b)
                /\ (log[c + 2].reply.st = "ok" /\ log[c + 2].reply.val # None) =>
                      /\ Mine(c + 3) /\ log[c + 3].ev = "edit"
                      /\ EditAt(c + 3) = replace_attr(RangeOf(v), log[c + 2].reply.val[1])
                      /\ Mine(c + 4) /\ log[c + 4].ev = "edit"
                      /\ EditAt(c + 4) = add_scram_attr(RangeOf(v), attr, v.b)
                      /\ log[c + 3].idx = log[c + 1].idx + 1
                      /\ log[c + 4].idx = log[c + 1].idx + 2

\* C14's case: a pass succeeded in which, for one event attribute, a rule's
\* callback returned a replacement and, for another, a rule's callback asked
\* for the removal
C14_Witness ==
    /\ result = "ok"
    /\ \E c \in 1..Len(log) :
          /\ RuleAnswered(c) /\ log[c].reply.val # None
          /\ tree[log[c].node].attrs[log[c].attr].k.b \in EVENT_ATTRIBUTES
    /\ \E c \in 1..Len(log) :
          /\ RuleAnswered(c) /\ log[c].reply.val = None
          /\ tree[log[c].node].attrs[log[c].attr].k.b \in EVENT_ATTRIBUTES

---------------------------------------------------------------------------
(* C15 *)

\* The history entry of the edit at index i of the list
EntryOf(i) == log[CHOOSE j \in 1..Len(log) : log[j].ev = "edit" /\ log[j].idx = i]

\* Where an edit belongs within its tag: an attribute's edits at the
\* attribute's place, then the style edit, the script marker, the script
\* text, the meta edit
PlaceInTag(i) ==
    LET e == EntryOf(i)
        late == Len(tree[e.node].attrs)
    IN  IF e.node > Len(tree) THEN 0
        ELSE IF e.attr > 0 THEN e.attr
        ELSE IF Named(e.node, s_style) THEN late + 1
        ELSE IF Named(e.node, s_script)
             THEN (IF changes[i].ty = "add_scram_attr" THEN late + 2 ELSE late + 3)
        ELSE late + 4

\* The edit at index i is one the step it comes from appends
OfItsStep(i) ==
    LET e == EntryOf(i)
        ty == changes[i].ty
    IN  IF e.node > Len(tree) THEN ty = "insert_text"
        ELSE IF e.attr > 0 THEN ty \in {"replace_attr", "remove_attr", "add_scram_attr"}
        ELSE IF Named(e.node, s_style) THEN ty = "replace"
        ELSE IF Named(e.node, s_script) THEN ty \in {"add_scram_attr", "replace"}
        ELSE Named(e.node, s_meta) /\ ty \in {"remove_node", "replace_attr"}

\* C15: the edits are in the list in the order of the traversal: the edits of
\* a tag that comes earlier in the traversal precede those of a tag that
\* comes later; within a tag the edits of its attributes come in the order
\* of the attributes, then the style edit, then the script marker edit and
\* the script text edit, then the meta edit; and the insert-text edit comes
\* after all of them.
C15_TraversalOrder ==
    /\ \A i \in 1..Len(changes) : OfItsStep(i)
    /\ \A i \in 1..Len(changes) : \A j \in 1..Len(changes) :
          i < j =>
              /\ EntryOf(i).node <= EntryOf(j).node
              /\ EntryOf(i).node = EntryOf(j).node => PlaceInTag(i) <= PlaceInTag(j)
              /\ changes[i].ty # "insert_text"

\* C15's case: a top-level pass succeeded on a document of two tags, the
\* first with edits for two of its attributes, the second an inline script
\* with its marker and text edits
C15_Witness ==
    /\ result = "ok" /\ from_top
    /\ \E i \in 1..Len(changes) : \E j \in 1..Len(changes) :
          /\ EntryOf(i).node = EntryOf(j).node
          /\ 0 < EntryOf(i).attr /\ EntryOf(i).attr < EntryOf(j).attr
    /\ \E i \in 1..Len(changes) : \E j \in 1..Len(changes) :
          /\ EntryOf(i).node < EntryOf(j).node
          /\ EntryOf(j).node <= Len(tree)
          /\ Named(EntryOf(j).node, s_script)
          /\ changes[j].ty = "replace"

---------------------------------------------------------------------------
(* C16 *)

\* The first child of tag n is raw text
FirstChildRaw(n) == Len(tree[n].children) > 0 /\ tree[tree[n].children[1]].kind = "raw"

\* Nothing in the history is about the content of tag n
ContentUntouched(n) == \A j \in 1..Len(log) : ~(log[j].node = n /\ log[j].attr = 0)

\* C16: for a style tag whose first child is raw text the pass makes one
\* RewriteCss request, carrying that text, and, answered with a text, appends
\* one replace-text-span edit over the first child's span carrying the answer,
\* and nothing else for the tag's content; for a style tag with no children,
\* or whose first child is not raw text (also when a later child is), and for
\* a tag that is not a style tag, there is no RewriteCss request; such a style
\* tag gets no edit for its content and no error comes from it.
C16_StyleFirstChildOnly ==
    \A n \in Tags :
        IF Named(n, s_style) /\ FirstChildRaw(n)
        THEN LET child == tree[tree[n].children[1]].raw
             IN  /\ Cardinality(Requests(n, "RewriteCss")) <= 1
                 /\ Passed(n) =>
                       /\ Cardinality(Requests(n, "RewriteCss")) = 1
                       /\ Cardinality(EditsOf(n, 0)) = 1
                 /\ \A c \in Requests(n, "RewriteCss") : log[c].req = RewriteCss(child.b)
                 /\ \A i \in EditsOf(n, 0) :
                       \E c \in Requests(n, "RewriteCss") :
                           changes[i] = replace(RangeOf(child), log[c].reply.val[1])
        ELSE /\ Requests(n, "RewriteCss") = {}
             /\ Named(n, s_style) => ContentUntouched(n)

\* C16's case: the pass is done with a style tag whose first child is a tag
\* and whose second child is raw text, and has rewritten the text of another
\* style tag
C16_Witness ==
    /\ result = "ok"
    /\ \E n \in Tags :
          /\ Named(n, s_style) /\ Passed(n)
          /\ Len(tree[n].children) > 1
          /\ tree[tree[n].children[1]].kind = "tag"
          /\ tree[tree[n].children[2]].kind = "raw"
    /\ \E n \in Tags : Named(n, s_style) /\ EditsOf(n, 0) # {}

---------------------------------------------------------------------------
(* C17 *)

\* The http-equiv value of tag n equals s ignoring ASCII case
HttpEquivIs(n, s) ==
    HasValue(n, s_http_equiv) /\ EqualsIgnoringCase(ValueSlice(n, s_http_equiv).b, s)

\* C17: for a meta tag whose http-equiv value is "refresh" in any case and
\* that has a content attribute with a value, the pass makes one
\* RewriteHttpEquivContent request, carrying the content value, and, answered
\* with a text, appends one replace-attribute-value edit over the content
\* value's span carrying the answer, and nothing else for the tag itself; for
\* such a tag without a content value nothing is requested or appended; a meta
\* tag with another http-equiv value than these two, or with none, and a tag
\* that is not a meta tag get no request and no edit of the meta policy.
C17_RefreshContent ==
    \A n \in Tags :
        IF Named(n, s_meta) /\ HttpEquivIs(n, s_refresh) /\ HasValue(n, s_content)
        THEN LET content == ValueSlice(n, s_content)
             IN  /\ Cardinality(Requests(n, "RewriteHttpEquivContent")) <= 1
                 /\ Passed(n) =>
                       /\ Cardinality(Requests(n, "RewriteHttpEquivContent")) = 1
                       /\ Cardinality(EditsOf(n, 0)) = 1
                 /\ \A c \in Requests(n, "RewriteHttpEquivContent") :
                       log[c].req = RewriteHttpEquivContent(content.b)
                 /\ \A i \in EditsOf(n, 0) :
                       \E c \in Requests(n, "RewriteHttpEquivContent") :
                           changes[i] = replace_attr(RangeOf(content), log[c].reply.val[1])
        ELSE /\ Requests(n, "RewriteHttpEquivContent") = {}
             /\ ~(Named(n, s_meta) /\ HttpEquivIs(n, s_csp)) => ContentUntouched(n)

\* C17's case: the pass is done with a meta tag whose http-equiv is "refresh"
\* in another case, rewriting its content, with one whose content has no
\* value or is missing, and has left both of these alone
C17_Witness ==
    /\ result = "ok"
    /\ \E n \in Tags :
          /\ Named(n, s_meta) /\ HttpEquivIs(n, s_refresh)
          /\ ValueSlice(n, s_http_equiv).b # s_refresh
          /\ EditsOf(n, 0) # {}
    /\ \E n \in Tags :
          /\ Named(n, s_meta) /\ HttpEquivIs(n, s_refresh)
          /\ ~HasValue(n, s_content)
          /\ Passed(n)

---------------------------------------------------------------------------
(* C18 *)

\* The type values with which a script is JavaScript
JsTypes == {s_application_javascript, s_text_javascript, s_module, s_importmap}

\* Script tag n has a type attribute whose value is text other than the
\* JavaScript types, written exactly
OtherType(n) ==
    /\ HasValue(n, s_type)
    /\ IsText(ValueSlice(n, s_type).b)
    /\ ValueSlice(n, s_type).b \notin JsTypes

\* C18: a script tag that has a src attribute, with or without a value, or
\* whose type value is none of application/javascript, text/javascript,
\* module and importmap written exactly (application/json, Module) is left
\* alone by the rewriting of script content: no Base64 request, no
\* RewriteInlineScript request, no script-source-src marker edit and no
\* replace-text-span edit are made for it, and no error comes from it.
C18_ScriptLeftUntouched ==
    \A n \in Tags :
        (Named(n, s_script) /\ (HasAttr(n, s_src) \/ OtherType(n))) =>
            /\ Requests(n, "Base64") = {}
            /\ Requests(n, "RewriteInlineScript") = {}
            /\ \A i \in EditsOfNode(n) :
                  /\ changes[i].ty # "replace"
                  /\ ~(changes[i].ty = "add_scram_attr" /\ changes[i].key = s_script_source_src)
            /\ ContentUntouched(n)

\* C18's case: the pass is done with a script tag that has text and a src
\* attribute without a value, and with one that has text and a type none of
\* the JavaScript types and no src, and it succeeded
C18_Witness ==
    /\ result = "ok"
    /\ \E n \in Tags :
          /\ Named(n, s_script) /\ HasAttr(n, s_src) /\ ~HasValue(n, s_src)
          /\ tree[n].inner.b # <<>>
    /\ \E n \in Tags :
          /\ Named(n, s_script) /\ ~HasAttr(n, s_src) /\ OtherType(n)
          /\ tree[n].inner.b # <<>>

---------------------------------------------------------------------------
(* C19 *)

\* The RewriteJsAttr requests made for attribute a of node n
JsAttrRequests(n, a) == {c \in Requests(n, "RewriteJsAttr") : log[c].attr = a}

\* Attribute a of node n is an event attribute whose value is the empty string
EmptyEventAttr(n, a) ==
    /\ tree[n].attrs[a].k.b \in EVENT_ATTRIBUTES
    /\ tree[n].attrs[a].v # None
    /\ tree[n].attrs[a].v[1].b = <<>>

\* C19: an attribute named in the event-attribute table that is present with
\* the empty string for its value causes no RewriteJsAttr request, no
\* replace-attribute-value edit and no marker edit.
C19_EmptyValueNotIntercepted ==
    \A n \in Tags : \A a \in 1..Len(tree[n].attrs) :
        EmptyEventAttr(n, a) =>
            /\ JsAttrRequests(n, a) = {}
            /\ EditsOfType(n, a, "replace_attr") = {}
            /\ EditsOfType(n, a, "add_scram_attr") = {}

---------------------------------------------------------------------------
(* C20 *)

\* Attribute a of node n has no value
Boolean(n, a) == tree[n].attrs[a].v = None

\* C20: an attribute without a value never gets an attribute-level edit:
\* no rule callback is invoked for it, also when a rule lists its name for
\* the tag, no RewriteJsAttr request is made for it, also when its name is in
\* the event-attribute table, and no edit (replace, remove, marker) is
\* appended for it; nothing in the history is about it.
C20_BooleanAttributeUntouched ==
    \A n \in Tags : \A a \in 1..Len(tree[n].attrs) :
        Boolean(n, a) =>
            /\ RuleCalls(n, a) = {}
            /\ JsAttrRequests(n, a) = {}
            /\ EditsOf(n, a) = {}
            /\ \A j \in 1..Len(log) : ~(log[j].node = n /\ log[j].attr = a)

\* C20's case: the pass succeeded on a tag with an attribute without a value
\* that is an event attribute and that a rule lists for the tag, and in the
\* same pass a rule's callback asked for the removal of another attribute
C20_Witness ==
    /\ result = "ok"
    /\ Removals # {}
    /\ \E n \in Tags : \E a \in 1..Len(tree[n].attrs) :
          /\ Boolean(n, a)
          /\ tree[n].attrs[a].k.b \in EVENT_ATTRIBUTES
          /\ \E i \in 1..Len(rules) : Lists(i, tree[n].name.b, tree[n].attrs[a].k.b)

=============================================================================
